---- MODULE Spec2Model ----
(***************************************************************************)
(* Model of app/models/base.py: the MultilingualMixin translation store    *)
(* (get_translation, set_translation, get_supported_languages,             *)
(* is_rtl_language) and the SoftDeleteMixin tombstone operations, acting   *)
(* on entities that combine the mixins the way BaseModel does.             *)
(***************************************************************************)
EXTENDS Naturals, Sequences, FiniteSets

VARIABLES
    entities,   \* entity name -> the entity's attributes
    ret,        \* the last call and its outcome
    inserted    \* history: per entity and field, the languages successfully
                \* set since the field was absent, in order of first insertion

vars == <<entities, ret, inserted>>

(***************************************************************************)
(* Python values.  Every value carries its type, so that isinstance, "in", *)
(* truthiness and item assignment can be decided the way Python decides    *)
(* them.  A dict is its sequence of <<key, value>> items in insertion      *)
(* order, which is the order Python iterates it in.                        *)
(***************************************************************************)
None == [type |-> "NoneType"]

PyStr(s) == [type |-> "str", s |-> s]

PyInt(n) == [type |-> "int", n |-> n]

PyBool(b) == [type |-> "bool", b |-> b]

PyDatetime(t) == [type |-> "datetime", t |-> t]

PyList(xs) == [type |-> "list", elems |-> xs]

PyDict(items) == [type |-> "dict", items |-> items]

EmptyDict == PyDict(<<>>)

Range(seq) == {seq[i] : i \in 1..Len(seq)}

(* Outcome of a call: it returns a value or raises an exception. *)
Return(v) == [kind |-> "return", val |-> v]

Raise(exc, msg) == [kind |-> "raise", val |-> [type |-> exc, msg |-> msg]]

(* bool(v): None, False, and empty containers are falsy. *)
Truthy(v) ==
    CASE v.type = "NoneType" -> FALSE
      [] v.type = "bool" -> v.b
      [] v.type = "dict" -> Len(v.items) > 0
      [] v.type = "list" -> Len(v.elems) > 0
      [] v.type = "str" -> v.s # ""
      [] OTHER -> TRUE

(* dict operations *)
DictKeys(d) == [i \in 1..Len(d.items) |-> d.items[i][1]]

DictValues(d) == [i \in 1..Len(d.items) |-> d.items[i][2]]

DictHas(d, k) == \E i \in 1..Len(d.items) : d.items[i][1] = k

DictGet(d, k) == d.items[CHOOSE i \in 1..Len(d.items) : d.items[i][1] = k][2]

(* Faulty variants of d[k] = v: one never overwrites an existing key, one
   forgets the other keys, one appends even when the key is there. *)
DictSetKeepsOld(d, k, v) ==
    IF DictHas(d, k) THEN d ELSE PyDict(Append(d.items, <<k, v>>))

DictSetReplacesAll(d, k, v) == PyDict(<< <<k, v>> >>)

DictSetAppends(d, k, v) == PyDict(Append(d.items, <<k, v>>))

(* Faulty variant of d[k] = v: an overwritten key is moved to the end. *)
DictSetMovesToEnd(d, k, v) ==
    LET kept == SelectSeq(d.items, LAMBDA p : p[1] # k)
    IN  PyDict(Append(kept, <<k, v>>))

(* d[k] = v: an existing key keeps its place, a new key goes last. *)
DictSet(d, k, v) ==
    IF DictHas(d, k)
    THEN PyDict([i \in 1..Len(d.items) |->
                    IF d.items[i][1] = k THEN <<k, v>> ELSE d.items[i]])
    ELSE PyDict(Append(d.items, <<k, v>>))

(***************************************************************************)
(* Class constants of MultilingualMixin.                                   *)
(***************************************************************************)
SUPPORTED_LANGUAGES == <<"en", "fa", "ar", "tr">>

DEFAULT_LANGUAGE == "en"

RTL_LANGUAGES == <<"fa", "ar">>

(***************************************************************************)
(* Entities.  An entity is a BaseModel-style record: identity, audit       *)
(* timestamps, the tombstone pair, and two translatable fields.            *)
(***************************************************************************)
Entities == {"job1", "job2"}

InstanceAttributes ==
    {"id", "created_at", "updated_at", "is_deleted", "deleted_at",
     "title_i18n", "description_i18n"}

(* The list-valued class constants, which every instance also exposes. *)
ClassAttributes == {"SUPPORTED_LANGUAGES", "RTL_LANGUAGES"}

TranslatableFields == {"title_i18n", "description_i18n"}

hasattr(self, name) == name \in InstanceAttributes \cup ClassAttributes

getattr(self, name) ==
    CASE name = "SUPPORTED_LANGUAGES" ->
            PyList([i \in 1..Len(SUPPORTED_LANGUAGES) |-> PyStr(SUPPORTED_LANGUAGES[i])])
      [] name = "RTL_LANGUAGES" ->
            PyList([i \in 1..Len(RTL_LANGUAGES) |-> PyStr(RTL_LANGUAGES[i])])
      [] OTHER -> self[name]

setattr(self, name, value) == [self EXCEPT ![name] = value]

(***************************************************************************)
(* Python's "x in c" and "c[k]" for the container types an attribute can   *)
(* hold.  PyIterable tells whether "x in c" is defined at all.             *)
(***************************************************************************)
PyIterable(c) == c.type \in {"dict", "list"}

PyContains(c, x) ==
    IF c.type = "dict" THEN DictHas(c, x) ELSE PyStr(x) \in Range(c.elems)

PySubscript(c, k) ==
    IF c.type = "dict"
    THEN Return(DictGet(c, k))
    ELSE Raise("TypeError", "indices must be integers")

(* Faulty variant of get_translation: the fallback is tried before the
   requested language. *)
get_translation_fallback_first(self, field_name, lang, fallback) ==
    IF ~hasattr(self, field_name)
    THEN Raise("ValueError", "does not exist")
    ELSE LET content == getattr(self, field_name) IN
         IF ~Truthy(content) THEN Return(None)
         ELSE IF ~PyIterable(content) THEN Raise("TypeError", "not iterable")
         ELSE IF PyContains(content, fallback) THEN PySubscript(content, fallback)
         ELSE IF PyContains(content, lang) THEN PySubscript(content, lang)
         ELSE IF content.type = "dict"
              THEN Return(DictValues(content)[1])
              ELSE Raise("AttributeError", "values")

(***************************************************************************)
(* MultilingualMixin.get_translation                                       *)
(***************************************************************************)
get_translation(self, field_name, lang, fallback) ==
    IF ~hasattr(self, field_name)
    THEN Raise("ValueError", "does not exist")
    ELSE LET content == getattr(self, field_name) IN
         IF ~Truthy(content) THEN Return(None)
         ELSE IF ~PyIterable(content) THEN Raise("TypeError", "not iterable")
         ELSE IF PyContains(content, lang) THEN PySubscript(content, lang)
         ELSE IF PyContains(content, fallback) THEN PySubscript(content, fallback)
         ELSE IF content.type = "dict"
              THEN Return(DictValues(content)[1])
              ELSE Raise("AttributeError", "values")

(* Faulty variant of set_translation: the language is not validated. *)
set_translation_any_language(self, field_name, lang, value) ==
    IF ~hasattr(self, field_name)
    THEN [self |-> self, out |-> Raise("ValueError", "does not exist")]
    ELSE IF value.type # "str"
    THEN [self |-> self, out |-> Raise("ValueError", "must be a string")]
    ELSE LET attr == getattr(self, field_name)
             current_content == IF attr = None THEN EmptyDict ELSE attr
         IN  IF current_content.type = "dict"
             THEN [self |-> setattr(self, field_name,
                                    DictSet(current_content, lang, value)),
                   out |-> Return(None)]
             ELSE [self |-> self,
                   out |-> Raise("TypeError", "does not support item assignment")]

(* Faulty variant of set_translation: an absent field is initialised to an
   empty mapping before the language and the value are validated. *)
set_translation_initialises_first(self, field_name, lang, value) ==
    IF ~hasattr(self, field_name)
    THEN [self |-> self, out |-> Raise("ValueError", "does not exist")]
    ELSE LET attr == getattr(self, field_name)
             current_content == IF attr = None THEN EmptyDict ELSE attr
             started == IF attr = None
                        THEN setattr(self, field_name, EmptyDict)
                        ELSE self
         IN  IF lang \notin Range(SUPPORTED_LANGUAGES)
             THEN [self |-> started, out |-> Raise("ValueError", "not supported")]
             ELSE IF value.type # "str"
             THEN [self |-> started, out |-> Raise("ValueError", "must be a string")]
             ELSE IF current_content.type = "dict"
             THEN [self |-> setattr(self, field_name,
                                    DictSet(current_content, lang, value)),
                   out |-> Return(None)]
             ELSE [self |-> self,
                   out |-> Raise("TypeError", "does not support item assignment")]

(***************************************************************************)
(* MultilingualMixin.set_translation: the entity after the call and the    *)
(* call's outcome.                                                         *)
(***************************************************************************)
set_translation(self, field_name, lang, value) ==
    IF ~hasattr(self, field_name)
    THEN [self |-> self, out |-> Raise("ValueError", "does not exist")]
    ELSE IF lang \notin Range(SUPPORTED_LANGUAGES)
    THEN [self |-> self, out |-> Raise("ValueError", "not supported")]
    ELSE IF value.type # "str"
    THEN [self |-> self, out |-> Raise("ValueError", "must be a string")]
    ELSE LET attr == getattr(self, field_name)
             current_content == IF attr = None THEN EmptyDict ELSE attr
         IN  IF current_content.type = "dict"
             THEN [self |-> setattr(self, field_name,
                                    DictSet(current_content, lang, value)),
                   out |-> Return(None)]
             ELSE [self |-> self,
                   out |-> Raise("TypeError", "does not support item assignment")]

(* Faulty variant of get_supported_languages: the platform's languages are
   returned for any field that has content. *)
get_supported_languages_global(self, field_name) ==
    IF ~hasattr(self, field_name)
    THEN Raise("ValueError", "does not exist")
    ELSE LET content == getattr(self, field_name) IN
         IF ~Truthy(content) THEN Return(PyList(<<>>))
         ELSE Return(getattr(self, "SUPPORTED_LANGUAGES"))

(***************************************************************************)
(* MultilingualMixin.get_supported_languages                               *)
(***************************************************************************)
get_supported_languages(self, field_name) ==
    IF ~hasattr(self, field_name)
    THEN Raise("ValueError", "does not exist")
    ELSE LET content == getattr(self, field_name) IN
         IF ~Truthy(content) THEN Return(PyList(<<>>))
         ELSE IF content.type = "dict"
              THEN Return(PyList([i \in 1..Len(content.items) |->
                                     PyStr(DictKeys(content)[i])]))
              ELSE Raise("AttributeError", "keys")

(* Faulty variant of is_rtl_language: every supported language counts. *)
is_rtl_language_supported(lang) ==
    Return(PyBool(lang \in Range(SUPPORTED_LANGUAGES)))

(* MultilingualMixin.is_rtl_language *)
is_rtl_language(lang) == Return(PyBool(lang \in Range(RTL_LANGUAGES)))

(***************************************************************************)
(* SoftDeleteMixin                                                         *)
(***************************************************************************)
soft_delete(self, utcnow) ==
    [self EXCEPT !.is_deleted = PyBool(TRUE), !.deleted_at = PyDatetime(utcnow)]

(* Faulty variant of restore: the flag is cleared, the timestamp is kept. *)
restore_keeps_timestamp(self) == [self EXCEPT !.is_deleted = PyBool(FALSE)]

restore(self) ==
    [self EXCEPT !.is_deleted = PyBool(FALSE), !.deleted_at = None]

is_active(self) == Return(PyBool(~Truthy(self.is_deleted)))

(***************************************************************************)
(* Inputs the calls are made with, and the bound of the model.             *)
(***************************************************************************)
FieldNames ==
    {"title_i18n", "description_i18n", "SUPPORTED_LANGUAGES", "invalid_field"}

TombstoneNames == {"deleted_at"}

LangCodes == Range(SUPPORTED_LANGUAGES) \cup {"de"}

TextValues == {PyStr(""), PyStr("A")}

Values == TextValues \cup {PyInt(123)}

(* Most translations kept at once, over all fields of all entities. *)
MaxEntries == 2

Size(v) == IF v.type = "dict" THEN Len(v.items) ELSE 0

EntityEntries(self) ==
    Size(self.title_i18n) + Size(self.description_i18n) + Size(self.deleted_at)

RECURSIVE TotalEntries(_, _)
TotalEntries(ents, E) ==
    IF E = {} THEN 0
    ELSE LET e == CHOOSE x \in E : TRUE
         IN  EntityEntries(ents[e]) + TotalEntries(ents, E \ {e})

(***************************************************************************)
(* Initial state: persisted, active entities.  A translatable field is     *)
(* absent (never written) or, read back from storage, an empty mapping.    *)
(***************************************************************************)
NewEntity(e, title, description) ==
    [id |-> PyStr(e),
     created_at |-> PyDatetime("2024-12-31 00:00:00"),
     updated_at |-> PyDatetime("2024-12-31 00:00:00"),
     is_deleted |-> PyBool(FALSE),
     deleted_at |-> None,
     title_i18n |-> title,
     description_i18n |-> description]

InitialContents == {None, EmptyDict}

MappingFields == TranslatableFields \cup TombstoneNames

NothingInserted(E) == [e \in E |-> [f \in MappingFields |-> <<>>]]

Init ==
    /\ \E t \in InitialContents, d \in InitialContents :
          entities = [e \in {"job1"} |-> NewEntity(e, t, d)]
    /\ ret = [op |-> "init", out |-> Return(None)]
    /\ inserted = NothingInserted({"job1"})

(* Two entities, for what a call on one does to the other. *)
TwoEntityInit ==
    /\ \E c \in InitialContents :
          entities = [e \in Entities |->
                         IF e = "job1" THEN NewEntity(e, None, None)
                                       ELSE NewEntity(e, c, c)]
    /\ ret = [op |-> "init", out |-> Return(None)]
    /\ inserted = NothingInserted(Entities)

(***************************************************************************)
(* Actions: one per call.                                                  *)
(***************************************************************************)
(* Faulty variant of the get_translation call: an absent field is
   initialised to an empty mapping by the read. *)
GetTranslationInitialises(e, f, lang, fallback) ==
    /\ ret' = [op |-> "get_translation",
               out |-> get_translation(entities[e], f, lang, fallback)]
    /\ entities' =
          IF f \in MappingFields /\ entities[e][f] = None
          THEN [entities EXCEPT ![e][f] = EmptyDict]
          ELSE entities
    /\ UNCHANGED inserted

GetTranslation(e, f, lang, fallback) ==
    /\ ret' = [op |-> "get_translation",
               out |-> get_translation(entities[e], f, lang, fallback)]
    /\ UNCHANGED <<entities, inserted>>

SetTranslation(e, f, lang, value) ==
    LET r == set_translation(entities[e], f, lang, value)
        after == [entities EXCEPT ![e] = r.self]
    IN  /\ TotalEntries(after, DOMAIN after) <= MaxEntries
        /\ entities' = after
        /\ ret' = [op |-> "set_translation", out |-> r.out]
        /\ inserted' =
              IF r.out.kind = "return" /\ lang \notin Range(inserted[e][f])
              THEN [inserted EXCEPT ![e][f] = Append(@, lang)]
              ELSE inserted

GetSupportedLanguages(e, f) ==
    /\ ret' = [op |-> "get_supported_languages",
               out |-> get_supported_languages(entities[e], f)]
    /\ UNCHANGED <<entities, inserted>>

Next ==
    \/ \E e \in DOMAIN entities, f \in FieldNames, lang \in LangCodes,
          fallback \in LangCodes :
          GetTranslation(e, f, lang, fallback)
    \/ \E e \in DOMAIN entities, f \in FieldNames, lang \in LangCodes,
          value \in Values :
          SetTranslation(e, f, lang, value)
    \/ \E e \in DOMAIN entities, f \in FieldNames : GetSupportedLanguages(e, f)

Spec == Init /\ [][Next]_vars

(* The same calls, which may also name the tombstone attribute. *)
TwoEntityNext ==
    \/ \E e \in DOMAIN entities, f \in TranslatableFields \cup TombstoneNames,
          lang \in LangCodes, fallback \in LangCodes :
          GetTranslation(e, f, lang, fallback)
    \/ \E e \in DOMAIN entities, f \in TranslatableFields \cup TombstoneNames,
          lang \in LangCodes, value \in Values :
          SetTranslation(e, f, lang, value)
    \/ \E e \in DOMAIN entities, f \in TranslatableFields \cup TombstoneNames :
          GetSupportedLanguages(e, f)

TwoEntitySpec == TwoEntityInit /\ [][TwoEntityNext]_vars

(***************************************************************************)
(* The tombstone calls and the RTL classification, on two entities.        *)
(* datetime.utcnow() is whatever instant the call is made at.              *)
(***************************************************************************)
Instants ==
    {"2025-01-01 12:00:00", "2025-01-02 12:00:00", "2025-01-03 12:00:00",
     "2025-01-04 12:00:00"}

RtlInputs == LangCodes \cup {"xx", ""}

StatusInit ==
    /\ entities = [e \in Entities |-> NewEntity(e, None, None)]
    /\ ret = [op |-> "init", out |-> Return(None)]
    /\ inserted = NothingInserted(Entities)

SoftDelete(e, utcnow) ==
    /\ entities' = [entities EXCEPT ![e] = soft_delete(entities[e], utcnow)]
    /\ ret' = [op |-> "soft_delete", out |-> Return(None)]
    /\ UNCHANGED inserted

Restore(e) ==
    /\ entities' = [entities EXCEPT ![e] = restore(entities[e])]
    /\ ret' = [op |-> "restore", out |-> Return(None)]
    /\ UNCHANGED inserted

IsActive(e) ==
    /\ ret' = [op |-> "is_active", out |-> is_active(entities[e])]
    /\ UNCHANGED <<entities, inserted>>

IsRtlLanguage(lang) ==
    /\ ret' = [op |-> "is_rtl_language", out |-> is_rtl_language(lang)]
    /\ UNCHANGED <<entities, inserted>>

StatusNext ==
    \/ \E e \in DOMAIN entities, utcnow \in Instants : SoftDelete(e, utcnow)
    \/ \E e \in DOMAIN entities : Restore(e)
    \/ \E e \in DOMAIN entities : IsActive(e)
    \/ \E lang \in RtlInputs : IsRtlLanguage(lang)

StatusSpec == StatusInit /\ [][StatusNext]_vars

(***************************************************************************)
(* What the claims speak of.                                               *)
(***************************************************************************)
Succeeded(out) == out.kind = "return"

IsMapping(v) == v.type = "dict"

AbsentOrMapping(v) == v = None \/ IsMapping(v)

(* The <<language, text>> entries of a field's value, as a set. *)
Entries(v) == IF IsMapping(v) THEN Range(v.items) ELSE {}

Languages(v) == {p[1] : p \in Entries(v)}

TextFor(v, lang) == (CHOOSE p \in Entries(v) : p[1] = lang)[2]

Supported == {"en", "fa", "ar", "tr"}

(* C1: round trip.  After a successful set_translation(field, L, V), whatever
   the field held before (absent, empty, L already set, other languages),
   get_translation(field, L, fallback=L) returns exactly V. *)
RoundTrip ==
    [][(ret'.op = "set_translation" /\ Succeeded(ret'.out))
       => \A e \in DOMAIN entities, f \in FieldNames, L \in LangCodes, V \in Values :
             SetTranslation(e, f, L, V)
             => get_translation(entities'[e], f, L, L) = Return(V)]_vars

(* C1 witness: a set has just succeeded on a field that holds two languages,
   one of them with the empty string as its text. *)
RoundTripWitness ==
    /\ ret.op = "set_translation"
    /\ Succeeded(ret.out)
    /\ \E e \in DOMAIN entities, f \in TranslatableFields :
          /\ Cardinality(Languages(entities[e][f])) = 2
          /\ \E p \in Entries(entities[e][f]) : p[2] = PyStr("")

(* C2: lookup order.  On a field that is absent or a mapping,
   get_translation(field, lang, fallback) returns the text stored for lang if
   the mapping has lang; else the text stored for fallback if it has
   fallback; else, if the mapping is not empty, the text of the language
   inserted first; else None. *)
ExpectedLookup(v, order, lang, fallback) ==
    IF lang \in Languages(v) THEN Return(TextFor(v, lang))
    ELSE IF fallback \in Languages(v) THEN Return(TextFor(v, fallback))
    ELSE IF Entries(v) # {} THEN Return(TextFor(v, order[1]))
    ELSE Return(None)

LookupOrder ==
    \A e \in DOMAIN entities, f \in MappingFields, lang \in LangCodes,
       fallback \in LangCodes :
       AbsentOrMapping(entities[e][f])
       => get_translation(entities[e], f, lang, fallback)
            = ExpectedLookup(entities[e][f], inserted[e][f], lang, fallback)

(* C2 witness: a read has returned the text of the first inserted language
   of a field with two languages whose texts differ: neither the requested
   language nor the fallback was there to answer with the second one. *)
LookupOrderWitness ==
    /\ ret.op = "get_translation"
    /\ \E e \in DOMAIN entities, f \in TranslatableFields :
          /\ Len(inserted[e][f]) = 2
          /\ TextFor(entities[e][f], inserted[e][f][1])
               # TextFor(entities[e][f], inserted[e][f][2])
          /\ ret.out = Return(TextFor(entities[e][f], inserted[e][f][1]))

(* C3: key invariant.  Whatever calls were made, failing ones included, every
   language that has an entry in a field's mapping is a supported one. *)
KeysSupported ==
    \A e \in DOMAIN entities, f \in MappingFields :
       Languages(entities[e][f]) \subseteq Supported

(* C3 witness: a set with an unsupported language has just been refused on
   an entity that holds translations. *)
KeysSupportedWitness ==
    /\ ret.op = "set_translation"
    /\ ret.out = Raise("ValueError", "not supported")
    /\ \E e \in DOMAIN entities, f \in TranslatableFields :
          Languages(entities[e][f]) # {}

(* The error kinds of the specification; the code tells them apart by the
   message of the ValueError it raises. *)
FieldNotFound == Raise("ValueError", "does not exist")

UnsupportedLanguage == Raise("ValueError", "not supported")

InvalidValue == Raise("ValueError", "must be a string")

(* A recognized attribute of the entity. *)
Recognized(f) == f \in InstanceAttributes \cup ClassAttributes

(* C4: set_translation signals an error exactly when the field is not a
   recognized attribute, the language is not supported or the value is not
   text, the error being the kind of a violated precondition; otherwise it
   succeeds, whatever the field holds. *)
SetErrorsExactly ==
    \A e \in DOMAIN entities, f \in FieldNames, lang \in LangCodes, value \in Values :
       LET out == set_translation(entities[e], f, lang, value).out
           violated == {k \in {"field", "lang", "value"} :
                           \/ k = "field" /\ ~Recognized(f)
                           \/ k = "lang" /\ lang \notin Supported
                           \/ k = "value" /\ value.type # "str"}
       IN  /\ Succeeded(out) <=> violated = {}
           /\ ~Succeeded(out) =>
                 \/ out = FieldNotFound /\ "field" \in violated
                 \/ out = UnsupportedLanguage /\ "lang" \in violated
                 \/ out = InvalidValue /\ "value" \in violated

(* C5: reads never fail on missing data.  On a recognized field
   get_translation signals no error, for any lang and fallback; on an absent
   or empty mapping it returns None; the only error is FieldNotFound, for a
   field that is not a recognized attribute. *)
ReadsNeverFail ==
    \A e \in DOMAIN entities, f \in FieldNames, lang \in LangCodes,
       fallback \in LangCodes :
       LET out == get_translation(entities[e], f, lang, fallback)
       IN  /\ Recognized(f) => Succeeded(out)
           /\ (Recognized(f) /\ getattr(entities[e], f) \in {None, EmptyDict})
                 => out = Return(None)
           /\ ~Succeeded(out) => (out = FieldNotFound /\ ~Recognized(f))

(* C6: get_translation and get_supported_languages are pure reads: whatever
   they return or raise, every attribute of every entity is as it was. *)
ReadsArePure ==
    [][ret'.op \in {"get_translation", "get_supported_languages"}
       => entities' = entities]_vars

(* C6 witness: a read has just signalled FieldNotFound on an entity that
   holds a translation and still has an absent field. *)
ReadsArePureWitness ==
    /\ ret.op = "get_translation"
    /\ ret.out = FieldNotFound
    /\ \E e \in DOMAIN entities :
          /\ Languages(entities[e].title_i18n) # {}
          /\ entities[e].description_i18n = None

(* The entry of a language in a field's value: its text, or nothing. *)
EntryOf(v, lang) == {p \in Entries(v) : p[1] = lang}

(* C7: frame of set_translation.  A successful set_translation(field, L, V)
   on an entity changes only the entry for L of that field: the other
   languages of the field, the other translatable fields, the other entities,
   and the entity's id, timestamps and tombstone flags are as they were. *)
SetFrame ==
    [][(ret'.op = "set_translation" /\ Succeeded(ret'.out))
       => \A e \in DOMAIN entities, f \in MappingFields, L \in LangCodes,
             V \in Values :
             SetTranslation(e, f, L, V)
             => /\ \A o \in DOMAIN entities \ {e} : entities'[o] = entities[o]
                /\ \A a \in {"id", "created_at", "updated_at", "is_deleted",
                             "deleted_at"} :
                      entities'[e][a] = entities[e][a]
                /\ \A g \in TranslatableFields \ {f} :
                      entities'[e][g] = entities[e][g]
                /\ \A l \in LangCodes \ {L} :
                      EntryOf(entities'[e][f], l) = EntryOf(entities[e][f], l)]_vars

(* C8: get_supported_languages(field) returns, without duplicates, exactly
   the languages that have an entry in the field's mapping, which are the
   languages set successfully since the field was absent; for an absent or
   empty mapping it returns the empty list. *)
AvailableLanguages ==
    \A e \in DOMAIN entities, f \in MappingFields :
       AbsentOrMapping(entities[e][f])
       => LET out == get_supported_languages(entities[e], f)
          IN  /\ Succeeded(out)
              /\ out.val.type = "list"
              /\ Range(out.val.elems) = {PyStr(l) : l \in Languages(entities[e][f])}
              /\ Range(out.val.elems) = {PyStr(l) : l \in Range(inserted[e][f])}
              /\ Len(out.val.elems) = Cardinality(Range(out.val.elems))
              /\ (entities[e][f] \in {None, EmptyDict} => out.val.elems = <<>>)

(* C8 witness: the call has just returned two languages, fewer than the
   platform supports. *)
AvailableLanguagesWitness ==
    /\ ret.op = "get_supported_languages"
    /\ Succeeded(ret.out)
    /\ Len(ret.out.val.elems) = 2

(* C9: translations are never implicitly deleted.  No get_translation,
   set_translation or get_supported_languages call, successful or failing,
   removes a language from a field, and a field that is present does not
   become absent again. *)
NeverShrinks ==
    [][\A e \in DOMAIN entities, f \in MappingFields :
          /\ Languages(entities[e][f]) \subseteq Languages(entities'[e][f])
          /\ entities[e][f] # None => entities'[e][f] # None]_vars

(* C9 witness: a second language has been added to a field, and a failing
   call has followed. *)
NeverShrinksWitness ==
    /\ ~Succeeded(ret.out)
    /\ \E e \in DOMAIN entities, f \in TranslatableFields :
          Len(inserted[e][f]) = 2

(* C10: idempotence.  Right after a successful set_translation(field, L, V),
   the same call again leaves the entity as it is, and the field has a
   single entry for L. *)
SetIdempotent ==
    [][(ret'.op = "set_translation" /\ Succeeded(ret'.out))
       => \A e \in DOMAIN entities, f \in FieldNames, L \in LangCodes, V \in Values :
             SetTranslation(e, f, L, V)
             => /\ set_translation(entities'[e], f, L, V)
                     = [self |-> entities'[e], out |-> Return(None)]
                /\ Cardinality({i \in 1..Len(entities'[e][f].items) :
                                   entities'[e][f].items[i][1] = L}) = 1]_vars

(* C10 witness: a set has just succeeded and left a field with the single
   entry "A" for one language. *)
SetIdempotentWitness ==
    /\ ret.op = "set_translation"
    /\ Succeeded(ret.out)
    /\ \E e \in DOMAIN entities, f \in TranslatableFields, l \in Supported :
          entities[e][f] = PyDict(<< <<l, PyStr("A")>> >>)

(* The two tombstone states of a record. *)
IsDeleted(self) ==
    /\ self.is_deleted = PyBool(TRUE)
    /\ self.deleted_at # None
    /\ is_active(self) = Return(PyBool(FALSE))

IsLive(self) ==
    /\ self.is_deleted = PyBool(FALSE)
    /\ self.deleted_at = None
    /\ is_active(self) = Return(PyBool(TRUE))

(* C11: the soft-delete state follows the last call.  A record starts live;
   every soft_delete() leaves it deleted and every restore() leaves it live,
   whatever it was before; no other call changes its tombstone pair; so in
   every state is_deleted is true exactly when deleted_at is set. *)
SoftDeleteFollowsLastCall ==
    /\ [](\A e \in DOMAIN entities : IsDeleted(entities[e]) \/ IsLive(entities[e]))
    /\ [][\A e \in DOMAIN entities :
             /\ (\E t \in Instants : SoftDelete(e, t)) => IsDeleted(entities'[e])
             /\ Restore(e) => IsLive(entities'[e])
             /\ (~(\E t \in Instants : SoftDelete(e, t)) /\ ~Restore(e))
                   => (entities'[e].is_deleted = entities[e].is_deleted
                       /\ entities'[e].deleted_at = entities[e].deleted_at)]_vars

(* C11 witness: one record has been deleted and restored (restore was the
   last call), the other is still deleted. *)
SoftDeleteWitness ==
    /\ ret.op = "restore"
    /\ IsLive(entities["job1"])
    /\ IsDeleted(entities["job2"])

(* C12: is_rtl_language is total: true exactly for fa and ar, false for any
   other code, supported or not, and never an error. *)
RtlClassification ==
    [][\A lang \in RtlInputs :
          IsRtlLanguage(lang) => ret'.out = Return(PyBool(lang \in {"fa", "ar"}))]_vars

(* C12 witness: a classification has just answered false. *)
RtlClassificationWitness ==
    /\ ret.op = "is_rtl_language"
    /\ ret.out = Return(PyBool(FALSE))

(* C13: a failed set_translation changes nothing.  Whenever the call signals
   an error, every attribute of every entity is what it was before; an absent
   mapping stays absent, so every read answers as it did before the call. *)
FailedSetChangesNothing ==
    [][(ret'.op = "set_translation" /\ ~Succeeded(ret'.out))
       => /\ entities' = entities
          /\ \A e \in DOMAIN entities, f \in TranslatableFields :
                /\ entities[e][f] = None => entities'[e][f] = None
                /\ get_supported_languages(entities'[e], f)
                     = get_supported_languages(entities[e], f)
                /\ \A lang \in LangCodes :
                      get_translation(entities'[e], f, lang, DEFAULT_LANGUAGE)
                        = get_translation(entities[e], f, lang, DEFAULT_LANGUAGE)]_vars

(* C13 witness: a set with a value that is not text has just been refused on
   an entity with one absent field and one field that holds a translation. *)
FailedSetWitness ==
    /\ ret.op = "set_translation"
    /\ ret.out = InvalidValue
    /\ \E e \in DOMAIN entities :
          /\ entities[e].title_i18n = None
          /\ Languages(entities[e].description_i18n) # {}

(***************************************************************************)
(* Sequences of valid writes only: the states two further writes start     *)
(* from.                                                                   *)
(***************************************************************************)
WriteNext ==
    \E e \in DOMAIN entities, f \in TranslatableFields,
       lang \in Range(SUPPORTED_LANGUAGES), value \in TextValues :
       SetTranslation(e, f, lang, value)

WriteSpec == Init /\ [][WriteNext]_vars

(* The entity after set_translation(f, L1, V1) and then set_translation(f, L2, V2). *)
TwoWrites(self, f, L1, V1, L2, V2) ==
    set_translation(set_translation(self, f, L1, V1).self, f, L2, V2).self

(* Two different supported languages, each pair taken once. *)
LanguagePairs ==
    LET n == Len(SUPPORTED_LANGUAGES)
    IN  {<<SUPPORTED_LANGUAGES[p[1]], SUPPORTED_LANGUAGES[p[2]]>> :
            p \in {q \in (1..n) \X (1..n) : q[1] < q[2]}}

(* C14 as stated: order independence of writes to distinct languages.  From
   the same prior state, writing L1 then L2 or L2 then L1 to a field gives
   the same result for every later get_translation(field, lang, fallback),
   whether or not lang and fallback are in the mapping. *)
WriteOrderIrrelevant ==
    \A e \in DOMAIN entities, f \in TranslatableFields, Ls \in LanguagePairs,
       V1 \in TextValues, V2 \in TextValues :
       LET a == TwoWrites(entities[e], f, Ls[1], V1, Ls[2], V2)
           b == TwoWrites(entities[e], f, Ls[2], V2, Ls[1], V1)
       IN  \A lang \in LangCodes, fallback \in LangCodes :
              get_translation(a, f, lang, fallback)
                = get_translation(b, f, lang, fallback)

(* C14 amended: both orders store the same text for the same languages, and
   a later read answers the same whenever the mapping has lang or fallback,
   or the field already held a translation before the two writes.  When
   neither holds, the read answers with the text written first. *)
WriteOrderOnlyInLastResort ==
    \A e \in DOMAIN entities, f \in TranslatableFields, Ls \in LanguagePairs,
       V1 \in TextValues, V2 \in TextValues :
       LET a == TwoWrites(entities[e], f, Ls[1], V1, Ls[2], V2)
           b == TwoWrites(entities[e], f, Ls[2], V2, Ls[1], V1)
           stored == Languages(a[f])
           held == Languages(entities[e][f]) # {}
       IN  /\ Entries(a[f]) = Entries(b[f])
           /\ \A lang \in LangCodes, fallback \in LangCodes :
                 IF lang \in stored \/ fallback \in stored \/ held
                 THEN get_translation(a, f, lang, fallback)
                        = get_translation(b, f, lang, fallback)
                 ELSE /\ get_translation(a, f, lang, fallback) = Return(V1)
                      /\ get_translation(b, f, lang, fallback) = Return(V2)

(* C14 witness: two languages have been written, one after the other, to a
   field that held nothing before, with different texts. *)
WriteOrderWitness ==
    /\ ret.op = "set_translation"
    /\ Succeeded(ret.out)
    /\ \E e \in DOMAIN entities, f \in TranslatableFields :
          /\ Len(inserted[e][f]) = 2
          /\ TextFor(entities[e][f], inserted[e][f][1])
               # TextFor(entities[e][f], inserted[e][f][2])

====
